---- MODULE Spec2Model ----
(***************************************************************************)
(* Article aggregation pipeline of the AI newsletter: the entry normalizer *)
(* (parse_entry, to_local, to_utc), the aggregator (load_articles) and the *)
(* filter engine (apply_filters, filter_last_days_top_n), at the two call  *)
(* sites: the batch digest (scripts/weekly_report.py, site "batch") and    *)
(* the interactive view (src/app.py, site "app").                          *)
(*                                                                         *)
(* Time is a whole number of clock units.  A datetime is a record          *)
(*   [some, wall, aware, off]                                              *)
(* wall = the calendar fields read as a number, aware = has a tzinfo,      *)
(* off = its UTC offset.  some = FALSE is Python's None.  Text is a        *)
(* sequence of one-character strings, so that lower() and the substring    *)
(* test are computed and not assumed.  The authors field of an Article is  *)
(* left out: no operation modelled here reads it.                          *)
(***************************************************************************)
EXTENDS Integers, Sequences, FiniteSets, TLC

VARIABLES
    site,       \* which program runs: "batch" (weekly_report.py) or "app" (app.py)
    localOff,   \* UTC offset of LOCAL_TZ = tz.tzlocal() in this process
    pc,         \* position in load_articles; "idle" before a single call
    idx,        \* load_articles: index in `sources` of the Source being handled
    articles,   \* load_articles: the working list `articles`
    failed,     \* indices of the Sources whose try block ended in `except`
    result,     \* the list load_articles returned (the canonical collection)
    entry,      \* normalizer: the raw entry handed to parse_entry
    parsed,     \* what the last call of parse_entry did
    norm,       \* normalizer: to_local / to_utc of a naive and of a UTC timestamp
    now,        \* filter: datetime.now(tz=LOCAL_TZ), as an instant
    fargs,      \* filter: the arguments of the last filter call
    fout,       \* filter: the list the last filter call returned
    env,        \* digest: os.environ of the weekly_report process
    files,      \* digest: the files main has written, each with its content
    mail,       \* digest: what became of the email step
    session,    \* view: st.session_state of the browser session
    url,        \* view: the `page` entry of st.query_params
    urlFrom,    \* view: the filter key of the run that produced `url`, if any
    view        \* view: what the last run of main computed and rendered

vars == <<site, localOff, pc, idx, articles, failed, result, entry, parsed, norm,
          now, fargs, fout, env, files, mail, session, url, urlFrom, view>>

(***************************************************************************)
(* Bounds                                                                  *)
(***************************************************************************)
\* datetime.min and datetime.max: the range of representable wall clocks
MinWall == 0
MaxWall == 6
\* cap on the number of Articles appended to the working list in one run
MaxArticles == 2
\* cap on the length of the list handed to the filters
MaxFilterLen == 2
\* largest top_n handed to filter_last_days_top_n
MaxTopN == 2
\* clock units in timedelta(days=1)
UnitsPerDay == 2

Sites == {"batch", "app"}
LocalOffsets == {-1, 0, 1}
Walls == MinWall..MaxWall

(***************************************************************************)
(* datetime                                                                *)
(***************************************************************************)
Dt(w, aw, o) == [some |-> TRUE, wall |-> w, aware |-> aw, off |-> o]
NoneDt == [some |-> FALSE, wall |-> 0, aware |-> FALSE, off |-> 0]

\* the instant an aware datetime denotes (what <= and sort compare)
Instant(dt) == dt.wall - dt.off

\* a call's outcome: a value, or an exception
Ok(dt) == [ok |-> TRUE, dt |-> dt]
Raised == [ok |-> FALSE, dt |-> NoneDt]

\* datetime.astimezone(zone): utc = self - offset, then zone.fromutc(utc);
\* either step leaving datetime's range is an OverflowError
astimezone(dt, zoneOff) ==
    LET utc == dt.wall - dt.off
        loc == utc + zoneOff
    IN  IF utc \notin Walls \/ loc \notin Walls
        THEN Raised
        ELSE Ok(Dt(loc, TRUE, zoneOff))

\* variant of to_local: a naive timestamp taken as local time
to_local_naive_as_local(dt, lo) ==
    IF ~dt.aware
    THEN Ok(Dt(dt.wall, TRUE, lo))
    ELSE astimezone(dt, lo)

to_local(dt, lo) ==
    IF ~dt.aware
    THEN astimezone(Dt(dt.wall, TRUE, 0), lo)
    ELSE astimezone(dt, lo)

to_utc(dt) ==
    IF ~dt.aware
    THEN Ok(Dt(dt.wall, TRUE, 0))
    ELSE astimezone(dt, 0)

\* the normalization parse_entry applies at each call site
SiteZone(s, lo) == IF s = "batch" THEN lo ELSE 0
normalize_tz(s, dt, lo) == IF s = "batch" THEN to_local(dt, lo) ELSE to_utc(dt)

(***************************************************************************)
(* Raw entries                                                             *)
(***************************************************************************)
\* A date-bearing field: absent (or empty, which entry.get(..) treats alike),
\* present but rejected by its parser ("bad"), or present and parsed to dt.
Absent == [st |-> "absent", dt |-> NoneDt]
Bad == [st |-> "bad", dt |-> NoneDt]
Good(dt) == [st |-> "ok", dt |-> dt]

\* try: parse(field) except Exception: None
TryParse(f) == IF f.st = "ok" THEN f.dt ELSE NoneDt

NoTitle == <<"(no title)">>
NoText == [some |-> FALSE, text |-> <<>>]
SomeText(t) == [some |-> TRUE, text |-> t]

\* weekly_report.parse_entry, lines 50-80: the published datetime before
\* timezone normalization
resolve_date_batch(e) ==
    LET d1 == IF e.published_parsed.st # "absent"
              THEN TryParse(e.published_parsed) ELSE NoneDt
        d2 == IF ~d1.some /\ e.published.st # "absent"
              THEN TryParse(e.published) ELSE d1
        d3 == IF ~d2.some
              THEN IF e.pubDate.st = "ok" THEN e.pubDate.dt
                   ELSE IF e.dc_date.st = "ok" THEN e.dc_date.dt
                   ELSE NoneDt
              ELSE d2
        u1 == IF e.updated_parsed.st # "absent"
              THEN TryParse(e.updated_parsed) ELSE NoneDt
        u2 == IF ~u1.some /\ e.updated.st # "absent"
              THEN TryParse(e.updated) ELSE u1
    IN  IF ~d3.some THEN u2 ELSE d3

\* app.parse_entry, lines 43-56
resolve_date_app(e) ==
    LET t == IF e.published.st = "ok" THEN e.published.dt
             ELSE IF e.updated.st = "ok" THEN e.updated.dt
             ELSE IF e.pubDate.st = "ok" THEN e.pubDate.dt
             ELSE IF e.dc_date.st = "ok" THEN e.dc_date.dt
             ELSE NoneDt
    IN  IF ~t.some /\ e.published_parsed.st # "absent"
        THEN TryParse(e.published_parsed) ELSE t

resolve_date(s, e) == IF s = "batch" THEN resolve_date_batch(e) ELSE resolve_date_app(e)

\* summary_text: the first non-empty of "summary", "description"
resolve_summary(e) ==
    IF e.summary # <<>> THEN SomeText(e.summary)
    ELSE IF e.description # <<>> THEN SomeText(e.description)
    ELSE NoText

Article(t, l, s, p, sm) ==
    [title |-> t, link |-> l, source |-> s, published |-> p, summary |-> sm]
NoArticle == Article(<<>>, <<>>, "", NoneDt, NoText)

\* what a call of parse_entry does: returns None, returns an Article, or raises
RNone == [kind |-> "none", art |-> NoArticle]
RRaise == [kind |-> "raise", art |-> NoArticle]
RArticle(a) == [kind |-> "article", art |-> a]

build_article(e, source_name, p) ==
    Article(IF e.title.some THEN e.title.text ELSE NoTitle,
            e.link, source_name, p, resolve_summary(e))

\* variant of parse_entry without the `if not published_dt: return None` guard
parse_entry_keep_undated(s, e, source_name, lo) ==
    LET dt == resolve_date(s, e)
        p == normalize_tz(s, dt, lo)
    IN  IF ~dt.some THEN RArticle(build_article(e, source_name, NoneDt))
        ELSE IF ~p.ok THEN RRaise
        ELSE RArticle(build_article(e, source_name, p.dt))

parse_entry(s, e, source_name, lo) ==
    LET dt == resolve_date(s, e)
        p == normalize_tz(s, dt, lo)
    IN  IF ~dt.some THEN RNone
        ELSE IF ~p.ok THEN RRaise
        ELSE RArticle(build_article(e, source_name, p.dt))

(***************************************************************************)
(* The feed source registry and the aggregator                             *)
(***************************************************************************)
\* `sources` as load_articles receives it: an ordered list of
\* {name, url, region?}; the second Source has no url, the third no region.
Sources ==
    << [name |-> "A", url |-> "https://a/feed", region |-> "Europe"],
       [name |-> "S", url |-> "",               region |-> "Asia"],
       [name |-> "B", url |-> "https://b/feed", region |-> ""] >>

NumSources == Len(Sources)

\* name = src.get("name") or url
source_name(i) == IF Sources[i].name # "" THEN Sources[i].name ELSE Sources[i].url

\* variant of dedupe_key: the title alone
dedupe_key_title_only(a) == a.title

\* key = a.link or a.title
dedupe_key(a) == IF a.link # <<>> THEN a.link ELSE a.title

RECURSIVE dedupe_loop(_, _, _, _)
dedupe_loop(as, i, seen, out) ==
    IF i > Len(as) THEN out
    ELSE IF dedupe_key(as[i]) \in seen
         THEN dedupe_loop(as, i + 1, seen, out)
         ELSE dedupe_loop(as, i + 1, seen \cup {dedupe_key(as[i])}, Append(out, as[i]))

\* variant of dedupe: the last Article of each key survives
RECURSIVE dedupe_last_wins(_)
dedupe_last_wins(as) ==
    IF as = <<>> THEN <<>>
    ELSE IF \E j \in 2..Len(as) : dedupe_key(as[j]) = dedupe_key(as[1])
         THEN dedupe_last_wins(Tail(as))
         ELSE <<Head(as)>> \o dedupe_last_wins(Tail(as))

\* lines 127-134: seen / deduped
dedupe(as) == dedupe_loop(as, 1, {}, <<>>)

\* list.sort(key=published, reverse=True): stable, descending.  a goes behind
\* every element that is not older than it.
RECURSIVE insert_desc(_, _)
insert_desc(s, a) ==
    IF s = <<>> THEN <<a>>
    ELSE IF Instant(Head(s).published) >= Instant(a.published)
         THEN <<Head(s)>> \o insert_desc(Tail(s), a)
         ELSE <<a>> \o s

RECURSIVE sort_loop(_, _, _)
sort_loop(as, i, out) ==
    IF i > Len(as) THEN out ELSE sort_loop(as, i + 1, insert_desc(out, as[i]))

\* variant of the sort: the list is left in working-list order
sort_published_unsorted(as) == as

sort_published_desc(as) == sort_loop(as, 1, <<>>)

(***************************************************************************)
(* Inputs                                                                  *)
(***************************************************************************)
\* what dateutil's parse() can return for a free-text date: a naive
\* datetime, an aware one, and two at the ends of datetime's range
TextDates ==
    { Dt(MinWall + 2, FALSE, 0), Dt(MinWall + 4, TRUE, 1),
      Dt(MinWall, TRUE, 1), Dt(MaxWall, FALSE, 0) }
\* datetime(*struct_time[:6]) is always naive
StructDates == { Dt(MinWall + 1, FALSE, 0), Dt(MinWall + 3, FALSE, 0) }

TextVals == {Absent, Bad} \cup {Good(d) : d \in TextDates}
StructVals == {Absent, Bad} \cup {Good(d) : d \in StructDates}

Entry(t, l, pp, p, pd, dc, up, u, sm, ds) ==
    [title |-> t, link |-> l, published_parsed |-> pp, published |-> p,
     pubDate |-> pd, dc_date |-> dc, updated_parsed |-> up, updated |-> u,
     summary |-> sm, description |-> ds]

EmptyEntry ==
    Entry(NoText, <<>>, Absent, Absent, Absent, Absent, Absent, Absent, <<>>, <<>>)

\* an entry handed to parse_entry on its own, from its six date-bearing fields
NormEntry(pp, p, pd, dc, up, u) ==
    Entry(SomeText(<<"x">>), <<>>, pp, p, pd, dc, up, u, <<>>, <<>>)

\* the entries a feed hands to load_articles: two titles, no link or a link
\* (the link "x" is also a title), and a date that is a naive text, an aware
\* text, missing, unparseable, or out of range once normalized
AggTitles == { <<"x">>, <<"y">> }
AggLinks == { <<>>, <<"x">> }
AggDates ==
    { Good(Dt(MinWall + 2, FALSE, 0)), Good(Dt(MinWall + 4, TRUE, 1)),
      Absent, Bad, Good(Dt(MinWall, TRUE, 1)) }
AggEntries ==
    { Entry(SomeText(t), l, Absent, p, Absent, Absent, Absent, Absent, <<>>, <<>>) :
        t \in AggTitles, l \in AggLinks, p \in AggDates }

Pending == [kind |-> "pending", art |-> NoArticle]
NoNorm == [naive |-> Raised, utc |-> Raised]
NoArgs == [fn |-> "none"]

(***************************************************************************)
(* Strings read from the environment and from the URL, and session state   *)
(***************************************************************************)
\* a string that may be missing: absent, one int() rejects, or a numeral
NoParam == [kind |-> "absent", val |-> 0]
TextParam == [kind |-> "text", val |-> 0]
IntParam(n) == [kind |-> "int", val |-> n]

\* os.environ: the three mail settings are TRUE when set to a non-empty string
NoEnv ==
    [PERIOD_DAYS |-> NoParam, RECIPIENT_EMAIL |-> FALSE, EMAIL_SENDER |-> FALSE,
     EMAIL_PASSWORD |-> FALSE]

\* st.session_state of a session in which main has not run yet
NoFilters ==
    [date_range |-> <<>>, selected_sources |-> <<>>, selected_regions |-> <<>>,
     query |-> <<>>]
NoSession ==
    [has_filters |-> FALSE, filters |-> NoFilters, has_page |-> FALSE, page |-> 0,
     has_key |-> FALSE, key |-> <<>>]
NoKey == [some |-> FALSE, key |-> <<>>]
SomeKey(k) == [some |-> TRUE, key |-> k]

\* nothing rendered yet
NoView ==
    [ran |-> FALSE, url_in |-> NoParam, url_from |-> NoKey,
     before |-> [has_page |-> FALSE, page |-> 0, has_key |-> FALSE, key |-> <<>>],
     total |-> 0, total_pages |-> 0, start_idx |-> 0, end_idx |-> 0, shown |-> <<>>,
     links |-> {}]

(***************************************************************************)
(* load_articles, one step per statement of its loops                      *)
(***************************************************************************)
InitCommon ==
    /\ site \in Sites
    /\ localOff \in LocalOffsets
    /\ idx = 1
    /\ articles = <<>>
    /\ failed = {}
    /\ result = <<>>
    /\ entry = EmptyEntry
    /\ parsed = Pending
    /\ norm = NoNorm
    /\ now = MinWall
    /\ fargs = NoArgs
    /\ fout = <<>>
    /\ files = {}
    /\ mail = "none"
    /\ session = NoSession
    /\ urlFrom = NoKey
    /\ view = NoView

\* no digest run and no browser session takes part
NoMain == env = NoEnv /\ url = NoParam

Init == InitCommon /\ NoMain /\ pc = "fetch"

NotMain == <<env, files, mail, session, url, urlFrom, view>>

NotAgg == <<entry, norm, now, fargs, fout, NotMain>>

\* if not url: continue
SkipSource ==
    /\ pc = "fetch" /\ idx <= NumSources
    /\ Sources[idx].url = ""
    /\ idx' = idx + 1
    /\ UNCHANGED <<site, localOff, pc, articles, failed, result>>
    /\ UNCHANGED parsed
    /\ UNCHANGED NotAgg

\* fetch_feed(url) raises: except Exception: continue
FetchRaises ==
    /\ pc = "fetch" /\ idx <= NumSources
    /\ Sources[idx].url # ""
    /\ failed' = failed \cup {idx}
    /\ idx' = idx + 1
    /\ UNCHANGED <<site, localOff, pc, articles, result>>
    /\ UNCHANGED parsed
    /\ UNCHANGED NotAgg

\* fetch_feed(url) returns a feed: enter `for entry in feed.entries`
FetchOk ==
    /\ pc = "fetch" /\ idx <= NumSources
    /\ Sources[idx].url # ""
    /\ pc' = "entries"
    /\ UNCHANGED <<site, localOff, idx, articles, failed, result>>
    /\ UNCHANGED parsed
    /\ UNCHANGED NotAgg

\* one iteration of the entry loop: art = parse_entry(entry, name);
\* if art: articles.append(art); an exception leaves the try block
NextEntry ==
    /\ pc = "entries"
    /\ \E e \in AggEntries :
         LET r == parse_entry(site, e, source_name(idx), localOff)
         IN  /\ parsed' = r
             /\ \/ /\ r.kind = "none"
                   /\ UNCHANGED <<pc, idx, articles, failed>>
                \/ /\ r.kind = "article"
                   /\ Len(articles) < MaxArticles
                   /\ articles' = Append(articles, r.art)
                   /\ UNCHANGED <<pc, idx, failed>>
                \/ /\ r.kind = "raise"
                   /\ failed' = failed \cup {idx}
                   /\ idx' = idx + 1
                   /\ pc' = "fetch"
                   /\ UNCHANGED articles
    /\ UNCHANGED <<site, localOff, result>>
    /\ UNCHANGED NotAgg

\* feed.entries is exhausted: next Source
EndOfFeed ==
    /\ pc = "entries"
    /\ idx' = idx + 1
    /\ pc' = "fetch"
    /\ UNCHANGED <<site, localOff, articles, failed, result>>
    /\ UNCHANGED parsed
    /\ UNCHANGED NotAgg

\* after the last Source: dedupe, sort, return
DedupeSort ==
    /\ pc = "fetch" /\ idx > NumSources
    /\ result' = sort_published_desc(dedupe(articles))
    /\ pc' = "done"
    /\ UNCHANGED <<site, localOff, idx, articles, failed>>
    /\ UNCHANGED parsed
    /\ UNCHANGED NotAgg

Next ==
    \/ SkipSource
    \/ FetchRaises
    \/ FetchOk
    \/ NextEntry
    \/ EndOfFeed
    \/ DedupeSort

Spec == Init /\ [][Next]_vars

(***************************************************************************)
(* parse_entry and the timezone normalizers on their own                   *)
(***************************************************************************)
InitNormalize == InitCommon /\ NoMain /\ pc = "idle"

NotNorm == <<idx, articles, failed, result, now, fargs, fout, NotMain>>

ParseEntry ==
    /\ pc = "idle"
    /\ \E pp \in StructVals, p \in TextVals, pd \in TextVals, dc \in TextVals,
          up \in StructVals, u \in TextVals :
         LET e == NormEntry(pp, p, pd, dc, up, u)
         IN  /\ entry' = e
             /\ parsed' = parse_entry(site, e, "A", localOff)
    /\ pc' = "parsed"
    /\ UNCHANGED <<site, localOff, norm>>
    /\ UNCHANGED NotNorm

\* to_local (batch) / to_utc (app) of the naive timestamp with calendar
\* fields w and of the explicit-UTC timestamp with the same fields
NormalizeTz(w) ==
    /\ pc = "idle"
    /\ norm' = [naive |-> normalize_tz(site, Dt(w, FALSE, 0), localOff),
                utc |-> normalize_tz(site, Dt(w, TRUE, 0), localOff)]
    /\ pc' = "normalized"
    /\ UNCHANGED <<site, localOff, entry, parsed>>
    /\ UNCHANGED NotNorm

NextNormalize ==
    \/ ParseEntry
    \/ \E w \in Walls : NormalizeTz(w)

SpecNormalize == InitNormalize /\ [][NextNormalize]_vars

(***************************************************************************)
(* The filter engine                                                       *)
(***************************************************************************)
\* str.lower() on the alphabet a, b, c, A, B
LowerChar(c) == IF c = "A" THEN "a" ELSE IF c = "B" THEN "b" ELSE c
\* variant of lower: case is kept
lower_identity(t) == t
lower(t) == [i \in 1..Len(t) |-> LowerChar(t[i])]

\* `needle in hay` on str
contains(hay, needle) ==
    \E i \in 0..(Len(hay) - Len(needle)) : SubSeq(hay, i + 1, i + Len(needle)) = needle

\* main, line 348: {s["name"]: s.get("region", "Global") for s in sources}
source_name_to_region ==
    [n \in {Sources[i].name : i \in 1..NumSources} |->
        LET i == CHOOSE j \in 1..NumSources : Sources[j].name = n
        IN  IF Sources[i].region # "" THEN Sources[i].region ELSE "Global"]

\* dict.get(a.source, "Global")
region_of(map, s) == IF s \in DOMAIN map THEN map[s] ELSE "Global"

\* a <= b on aware datetimes
dt_le(a, b) == Instant(a) <= Instant(b)

\* variant of in_window: strict comparisons
in_window_exclusive(a, sd, ed) ==
    Instant(sd) < Instant(a.published) /\ Instant(a.published) < Instant(ed)

\* start <= a.published <= end
in_window(a, sd, ed) == dt_le(sd, a.published) /\ dt_le(a.published, ed)

\* q in a.title.lower() or (a.summary and q in a.summary.lower())
matches_query(a, q) ==
    \/ contains(lower(a.title), q)
    \/ a.summary.some /\ a.summary.text # <<>> /\ contains(lower(a.summary.text), q)

apply_filters(as, sd, ed, srcs, regs, map, query) ==
    LET Keep(a) ==
            /\ in_window(a, sd, ed)
            /\ ~(srcs # {} /\ a.source \notin srcs)
            /\ ~(regs # {} /\ region_of(map, a.source) \notin regs)
        filtered == SelectSeq(as, Keep)
        Match(a) == matches_query(a, lower(query))
    IN  IF query # <<>> THEN SelectSeq(filtered, Match) ELSE filtered

Min(a, b) == IF a <= b THEN a ELSE b
Max(a, b) == IF a >= b THEN a ELSE b

\* s[:n]
slice_to(s, n) ==
    IF n >= 0 THEN SubSeq(s, 1, Min(n, Len(s))) ELSE SubSeq(s, 1, Max(Len(s) + n, 0))

\* variant of filter_last_days_top_n: the slice is taken from the old end
filter_last_days_oldest_n(as, days, top_n, nowDt) ==
    LET start == Dt(nowDt.wall - days * UnitsPerDay, TRUE, nowDt.off)
        InWin(a) == in_window(a, start, nowDt)
        sorted == sort_published_desc(SelectSeq(as, InWin))
    IN  SubSeq(sorted, Len(sorted) - Min(top_n, Len(sorted)) + 1, Len(sorted))

\* end = now; start = end - timedelta(days=days)
filter_last_days_top_n(as, days, top_n, nowDt) ==
    LET start == Dt(nowDt.wall - days * UnitsPerDay, TRUE, nowDt.off)
        InWin(a) == in_window(a, start, nowDt)
    IN  slice_to(sort_published_desc(SelectSeq(as, InWin)), top_n)

(***************************************************************************)
(* Filter inputs: canonical collections (sorted, one Article per key)      *)
(***************************************************************************)
FNow == MinWall + UnitsPerDay + 2
FilterInstants == { FNow - UnitsPerDay, FNow - 1, FNow }
FilterNows == { FNow - 1, FNow }
FilterBounds == { FNow - UnitsPerDay, FNow }
\* title and summary: a title matching "a" only without regard to case, a
\* summary doing so, and neither
FilterTexts ==
    { <<(<<"A", "b">>), NoText>>, <<(<<"b">>), SomeText(<<"A">>)>>, <<(<<"c">>), NoText>> }
FilterSources == { "A", "Z" }
FilterQueries == { <<>>, <<"a">>, <<"A", "B">> }
AllowedSourceSets == { {}, {"A"}, {"Z"} }
AllowedRegionSets == { {}, {"Europe"}, {"Global"} }

\* an aware datetime at instant i in the zone of offset z
AtInstant(i, z) == Dt(i + z, TRUE, z)

FilterArticles(z) ==
    { Article(tx[1], <<>>, s, AtInstant(i, z), tx[2]) :
        tx \in FilterTexts, s \in FilterSources, i \in FilterInstants }

IsSortedDesc(as) ==
    \A i \in 1..(Len(as) - 1) : Instant(as[i].published) >= Instant(as[i + 1].published)

HasUniqueKeys(as) ==
    \A i, j \in 1..Len(as) : i # j => dedupe_key(as[i]) # dedupe_key(as[j])

RECURSIVE SeqsUpTo(_, _)
SeqsUpTo(S, n) ==
    IF n = 0 THEN { <<>> }
    ELSE LET shorter == SeqsUpTo(S, n - 1)
         IN  shorter \cup { Append(q, x) : q \in shorter, x \in S }

Canonical(z) ==
    { as \in SeqsUpTo(FilterArticles(z), MaxFilterLen) : IsSortedDesc(as) /\ HasUniqueKeys(as) }

InitFilter == InitCommon /\ NoMain /\ pc = "idle"

NotFilter == <<site, localOff, idx, articles, failed, entry, parsed, norm, NotMain>>

\* the interactive view: filtered = apply_filters(all_articles, ...)
ApplyFilters ==
    /\ pc = "idle" /\ site = "app"
    /\ \E as \in Canonical(0), sd \in FilterBounds, ed \in FilterBounds,
          srcs \in AllowedSourceSets, regs \in AllowedRegionSets, q \in FilterQueries :
         /\ result' = as
         /\ fargs' = [fn |-> "apply_filters",
                      start_date |-> AtInstant(sd, localOff),
                      end_date |-> AtInstant(ed, localOff),
                      allowed_sources |-> srcs, allowed_regions |-> regs, query |-> q]
         /\ fout' = apply_filters(as, AtInstant(sd, localOff), AtInstant(ed, localOff),
                                  srcs, regs, source_name_to_region, q)
    /\ pc' = "filtered"
    /\ UNCHANGED now
    /\ UNCHANGED NotFilter

\* the batch digest: recent = filter_last_days_top_n(all_articles, period_days, 10)
FilterLastDaysTopN ==
    /\ pc = "idle" /\ site = "batch"
    /\ \E as \in Canonical(localOff), t \in FilterNows, days \in {0, 1},
          top_n \in 0..MaxTopN :
         /\ result' = as
         /\ now' = t
         /\ fargs' = [fn |-> "filter_last_days_top_n", days |-> days, top_n |-> top_n]
         /\ fout' = filter_last_days_top_n(as, days, top_n, AtInstant(t, localOff))
    /\ pc' = "filtered"
    /\ UNCHANGED NotFilter

NextFilter ==
    \/ ApplyFilters
    \/ FilterLastDaysTopN

SpecFilter == InitFilter /\ [][NextFilter]_vars

(***************************************************************************)
(* weekly_report.main: one run of the batch digest                         *)
(***************************************************************************)
\* os.environ.get("PERIOD_DAYS", "7")
DefaultPeriodDays == 7
\* filter_last_days_top_n(all_articles, period_days, 10)
DigestTopN == 10

NewsletterHtml == "dist/newsletter.html"
NewsletterCsv == "dist/newsletter.csv"
DocsIndex == "docs/index.html"
DigestFiles == { NewsletterHtml, NewsletterCsv, DocsIndex }
\* attachments=[out_dir / "newsletter.html", out_dir / "newsletter.csv"]
Attachments == { NewsletterHtml, NewsletterCsv }

Environments ==
    [PERIOD_DAYS : { NoParam, TextParam, IntParam(1) }, RECIPIENT_EMAIL : BOOLEAN,
     EMAIL_SENDER : BOOLEAN, EMAIL_PASSWORD : BOOLEAN]

\* int(os.environ.get("PERIOD_DAYS", "7")), for a value int() accepts
period_days(e) ==
    IF e.PERIOD_DAYS.kind = "absent" THEN DefaultPeriodDays ELSE e.PERIOD_DAYS.val

\* path.write_text(content): the file at `path` now holds `content`
write_text(fs, path, content) ==
    { f \in fs : f.path # path } \cup { [path |-> path, content |-> content] }

\* variant of credentials_missing: only when both settings are missing
credentials_missing_both(e) == ~e.EMAIL_SENDER /\ ~e.EMAIL_PASSWORD

\* if not sender_email or not sender_password
credentials_missing(e) == ~e.EMAIL_SENDER \/ ~e.EMAIL_PASSWORD

InitDigest ==
    /\ InitCommon
    /\ site = "batch"
    /\ env \in Environments
    /\ url = NoParam
    /\ pc = "main"

NotDigest ==
    <<site, localOff, idx, articles, failed, entry, parsed, norm, env, session, url,
      urlFrom, view>>

\* period_days = int(...) raises ValueError: main ends before anything is written
BadPeriodDays ==
    /\ pc = "main" /\ env.PERIOD_DAYS.kind = "text"
    /\ pc' = "crashed"
    /\ UNCHANGED <<result, now, fargs, fout, files, mail>>
    /\ UNCHANGED NotDigest

\* all_articles = load_articles(DEFAULT_SOURCES); recent = filter_last_days_top_n(...)
LoadAndFilter ==
    /\ pc = "main" /\ env.PERIOD_DAYS.kind # "text"
    /\ \E as \in Canonical(localOff), t \in FilterNows :
         /\ result' = as
         /\ now' = t
         /\ fargs' = [fn |-> "filter_last_days_top_n", days |-> period_days(env),
                      top_n |-> DigestTopN]
         /\ fout' = filter_last_days_top_n(as, period_days(env), DigestTopN,
                                           AtInstant(t, localOff))
    /\ pc' = "write_html"
    /\ UNCHANGED <<files, mail>>
    /\ UNCHANGED NotDigest

\* (out_dir / "newsletter.html").write_text(html, encoding="utf-8")
WriteHtml ==
    /\ pc = "write_html"
    /\ files' = write_text(files, NewsletterHtml, fout)
    /\ pc' = "write_csv"
    /\ UNCHANGED <<result, now, fargs, fout, mail>>
    /\ UNCHANGED NotDigest

\* write_csv(out_dir / "newsletter.csv", recent)
WriteCsv ==
    /\ pc = "write_csv"
    /\ files' = write_text(files, NewsletterCsv, fout)
    /\ pc' = "write_docs"
    /\ UNCHANGED <<result, now, fargs, fout, mail>>
    /\ UNCHANGED NotDigest

\* (docs_dir / "index.html").write_text(html, encoding="utf-8")
WriteDocs ==
    /\ pc = "write_docs"
    /\ files' = write_text(files, DocsIndex, fout)
    /\ pc' = "email"
    /\ UNCHANGED <<result, now, fargs, fout, mail>>
    /\ UNCHANGED NotDigest

\* a write raises OSError: main ends with the files written so far
WriteFails ==
    /\ pc \in { "write_html", "write_csv", "write_docs" }
    /\ pc' = "crashed"
    /\ UNCHANGED <<result, now, fargs, fout, files, mail>>
    /\ UNCHANGED NotDigest

\* else: print("No RECIPIENT_EMAIL environment variable set. ...")
SkipEmail ==
    /\ pc = "email" /\ ~env.RECIPIENT_EMAIL
    /\ mail' = "skipped"
    /\ pc' = "exit"
    /\ UNCHANGED <<result, now, fargs, fout, files>>
    /\ UNCHANGED NotDigest

\* send_email: raise ValueError("Please set EMAIL_SENDER and EMAIL_PASSWORD ...")
SendEmailRaises ==
    /\ pc = "email" /\ env.RECIPIENT_EMAIL /\ credentials_missing(env)
    /\ mail' = "no_credentials"
    /\ pc' = "crashed"
    /\ UNCHANGED <<result, now, fargs, fout, files>>
    /\ UNCHANGED NotDigest

\* send_email: the attachments are read back and the message goes to the SMTP
\* server, which accepts it or fails
SendEmail ==
    /\ pc = "email" /\ env.RECIPIENT_EMAIL /\ ~credentials_missing(env)
    /\ Attachments \subseteq { f.path : f \in files }
    /\ \E accepted \in BOOLEAN :
         /\ mail' = IF accepted THEN "sent" ELSE "smtp_error"
         /\ pc' = IF accepted THEN "exit" ELSE "crashed"
    /\ UNCHANGED <<result, now, fargs, fout, files>>
    /\ UNCHANGED NotDigest

NextDigest ==
    \/ BadPeriodDays
    \/ LoadAndFilter
    \/ WriteHtml
    \/ WriteCsv
    \/ WriteDocs
    \/ WriteFails
    \/ SkipEmail
    \/ SendEmailRaises
    \/ SendEmail

SpecDigest == InitDigest /\ [][NextDigest]_vars

(***************************************************************************)
(* app.main: runs of the interactive view in a browser session             *)
(***************************************************************************)
\* default_days = 7
DefaultDays == 7
\* per_page = 10
PerPage == 10
\* largest size of the filtered list
MaxTotal == 21

\* today = datetime.now(tz=LOCAL_TZ), as a day number; start = today - default_days
Today == DefaultDays + 1

Range(s) == { s[i] : i \in 1..Len(s) }

\* the strings the view sorts, in the order Python's sorted() gives them
SortOrder == << "", "A", "Asia", "B", "Europe", "Global", "S" >>

\* tuple(sorted(names)) for names without repetition
sorted(names) == LET In(x) == x \in Range(names) IN SelectSeq(SortOrder, In)

RECURSIVE lstrip(_)
lstrip(t) == IF t # <<>> /\ Head(t) = " " THEN lstrip(Tail(t)) ELSE t
RECURSIVE rstrip(_)
rstrip(t) == IF t # <<>> /\ t[Len(t)] = " " THEN rstrip(SubSeq(t, 1, Len(t) - 1)) ELSE t
\* str.strip()
strip(t) == rstrip(lstrip(t))

\* source_names = [s["name"] for s in sources]
source_names == [i \in 1..NumSources |-> Sources[i].name]
\* regions = sorted({s.get("region", "Global") for s in sources})
regions == sorted([i \in 1..NumSources |-> Sources[i].region])

\* the sidebar (st.date_input, the two st.multiselect, st.text_input) as a
\* session starts
DefaultWidgets ==
    [date_range |-> <<Today - DefaultDays, Today>>, selected_sources |-> source_names,
     selected_regions |-> regions, query |-> <<>>]
\* and after the user changed one widget: a single day, a date range left
\* half picked, two sources picked in another order, one region, a query, and
\* the same query in capitals after a blank
Widgets ==
    { DefaultWidgets,
      [DefaultWidgets EXCEPT !.date_range = <<Today, Today>>],
      [DefaultWidgets EXCEPT !.date_range = <<Today>>],
      [DefaultWidgets EXCEPT !.selected_sources = <<"S", "A">>],
      [DefaultWidgets EXCEPT !.selected_regions = <<"Europe">>],
      [DefaultWidgets EXCEPT !.query = <<"a">>],
      [DefaultWidgets EXCEPT !.query = <<" ", "A">>] }

\* start_date.date(), end_date.date(): the two days picked, else start and today
date_bounds(dr) == IF Len(dr) = 2 THEN dr ELSE <<Today - DefaultDays, Today>>

\* filter_key = (str(start_date.date()), str(end_date.date()), ...); a date's
\* str() is its ISO form, one per day
filter_key(w) ==
    << date_bounds(w.date_range)[1], date_bounds(w.date_range)[2],
       sorted(w.selected_sources), sorted(w.selected_regions), lower(strip(w.query)) >>

\* if "page" not in st.session_state: ...; page = st.session_state["page"]
session_page(ss) == IF ss.has_page THEN ss.page ELSE 1

\* the try block on st.query_params: an absent or empty entry is skipped,
\* int() of anything else than a numeral raises and the except passes
sync_page(page, u) == IF u.kind = "int" /\ u.val # page THEN u.val ELSE page

\* variant of reset_page: the page survives a change of filters
reset_page_never(ss, key, page) == page

\* if st.session_state.get("_filter_key") != filter_key: ... ["page"] = 1
reset_page(ss, key, page) == IF ~ss.has_key \/ ss.key # key THEN 1 ELSE page

total_pages_of(total) == Max(1, (total + PerPage - 1) \div PerPage)

\* variant of clamp_page: only the upper limit is applied
clamp_page_upper_only(page, tp) == Min(page, tp)

\* page = max(1, min(page, total_pages))
clamp_page(page, tp) == Max(1, Min(page, tp))

\* Python's reading of a slice index i on a list of length n
slice_index(i, n) == IF i < 0 THEN Max(n + i, 0) ELSE Min(i, n)
\* s[a:b]
slice(s, a, b) == SubSeq(s, slice_index(a, Len(s)) + 1, slice_index(b, Len(s)))

\* the hrefs "?page=N" of the pagination bar
page_links(page, tp) ==
    IF tp > 1
    THEN (IF page > 1 THEN { page - 1 } ELSE {})
         \cup ((Max(1, page - 2)..Min(tp, page + 2)) \ { page })
         \cup (IF page < tp THEN { page + 1 } ELSE {})
    ELSE {}

Totals == { 0, PerPage, PerPage + 1, MaxTotal }
\* the filtered list, its Articles named by their rank
filtered_of(total) == [i \in 1..total |-> i]

UrlParams == { NoParam, TextParam } \cup { IntParam(n) : n \in (-1)..(total_pages_of(MaxTotal) + 1) }

\* what main keeps in st.session_state besides "filters"
Kept(ss) == [has_page |-> ss.has_page, page |-> ss.page, has_key |-> ss.has_key, key |-> ss.key]

InitView ==
    /\ InitCommon
    /\ site = "app"
    /\ localOff = 0
    /\ env = NoEnv
    /\ url \in UrlParams
    /\ pc = "loading"

NotView ==
    <<site, localOff, idx, articles, failed, result, entry, parsed, norm, now, fargs,
      fout, env, files, mail>>

\* one run of main, from the widgets to the pagination bar; the first run of a
\* session sees the widgets at their defaults
RunMain ==
    /\ pc \in { "loading", "rendered" } /\ site = "app"
    /\ \E w \in Widgets, total \in Totals :
         /\ pc = "loading" => w = DefaultWidgets
         /\ LET synced == sync_page(session_page(session), url)
                key == filter_key(w)
                tp == total_pages_of(total)
                page == clamp_page(reset_page(session, key, synced), tp)
                start_idx == (page - 1) * PerPage
                end_idx == Min(page * PerPage, total)
            IN  /\ session' = [has_filters |-> TRUE, filters |-> w, has_page |-> TRUE,
                               page |-> page, has_key |-> TRUE, key |-> key]
                /\ url' = IntParam(page)
                /\ urlFrom' = SomeKey(key)
                /\ view' = [ran |-> TRUE, url_in |-> url, url_from |-> urlFrom,
                            before |-> Kept(session), total |-> total,
                            total_pages |-> tp, start_idx |-> start_idx,
                            end_idx |-> end_idx,
                            shown |-> slice(filtered_of(total), start_idx, end_idx),
                            links |-> page_links(page, tp)]
    /\ pc' = "rendered"
    /\ UNCHANGED NotView

\* the user clicks <a href="?page=p"> of the pagination bar: the browser loads
\* the address, which starts a session
FollowLink ==
    /\ pc = "rendered" /\ site = "app" /\ view.ran
    /\ \E p \in view.links : url' = IntParam(p)
    /\ session' = NoSession
    /\ pc' = "loading"
    /\ UNCHANGED <<urlFrom, view>>
    /\ UNCHANGED NotView

\* the user reloads the page
Reload ==
    /\ pc = "rendered" /\ site = "app"
    /\ session' = NoSession
    /\ pc' = "loading"
    /\ UNCHANGED <<url, urlFrom, view>>
    /\ UNCHANGED NotView

\* the user opens an address typed by hand
OpenUrl ==
    /\ pc = "rendered" /\ site = "app"
    /\ \E u \in UrlParams : url' = u
    /\ urlFrom' = NoKey
    /\ session' = NoSession
    /\ pc' = "loading"
    /\ UNCHANGED view
    /\ UNCHANGED NotView

\* the browser moves through its history without loading the page: the
\* address changes, the session stays; the page on screen is now out of date
HistoryMove ==
    /\ pc = "rendered" /\ site = "app"
    /\ \E u \in UrlParams : url' = u
    /\ urlFrom' \in { NoKey, urlFrom }
    /\ view' = NoView
    /\ UNCHANGED <<pc, session>>
    /\ UNCHANGED NotView

NextView ==
    \/ RunMain
    \/ FollowLink
    \/ Reload
    \/ OpenUrl
    \/ HistoryMove

SpecView == InitView /\ [][NextView]_vars

(***************************************************************************)
(* Properties of the aggregator (Spec)                                     *)
(***************************************************************************)
\* the dedupe key as the data model defines it: link if non-empty, else title
KeyOf(a) == IF a.link = <<>> THEN a.title ELSE a.link

\* index in the working list of the first Article with the key of articles[i]
FirstWithKey(i) ==
    CHOOSE f \in 1..i :
        /\ KeyOf(articles[f]) = KeyOf(articles[i])
        /\ \A g \in 1..(f - 1) : KeyOf(articles[g]) # KeyOf(articles[i])

Returned == { result[k] : k \in 1..Len(result) }

\* C1: the collection load_articles returns holds no two Articles with the
\* same dedupe key; for each key of the working list the survivor is the
\* Article that comes first in the working list, and nothing else is
\* returned; a later duplicate of a linked Article (same link, any title,
\* any date, any source) appended to the working list leaves the returned
\* collection unchanged.
C1_DedupeFirstSeenWins ==
    pc = "done" =>
        /\ \A i, j \in 1..Len(result) : i # j => KeyOf(result[i]) # KeyOf(result[j])
        /\ \A i \in 1..Len(articles) : articles[FirstWithKey(i)] \in Returned
        /\ Len(result) = Cardinality({ KeyOf(articles[i]) : i \in 1..Len(articles) })
        /\ \A i \in 1..Len(articles), t \in AggTitles, k \in 1..Len(articles) :
              articles[i].link # <<>> =>
                 LET dup == [articles[i] EXCEPT !.title = t,
                                                !.source = "B",
                                                !.published = articles[k].published]
                 IN  sort_published_desc(dedupe(Append(articles, dup))) = result

\* two Sources yield the same link under different titles and dates, and the
\* later one has the newer date
C1_Witness ==
    /\ pc = "done"
    /\ Len(articles) = 2 /\ Len(result) = 1
    /\ articles[1].link # <<>> /\ articles[1].link = articles[2].link
    /\ articles[1].title # articles[2].title
    /\ articles[1].source # articles[2].source
    /\ Instant(articles[1].published) < Instant(articles[2].published)
    /\ result[1] = articles[1]

\* C2: the collection load_articles returns is sorted by published
\* descending: each Article is at least as recent as the one after it.
C2_SortedDescending ==
    pc = "done" =>
        \A i \in 1..(Len(result) - 1) :
            Instant(result[i].published) >= Instant(result[i + 1].published)

\* the working list was in ascending order and both Articles survive
C2_Witness ==
    /\ pc = "done"
    /\ Len(articles) = 2 /\ Len(result) = 2
    /\ Instant(articles[1].published) < Instant(articles[2].published)
    /\ result[1] = articles[2] /\ result[2] = articles[1]

\* C3: a Source whose fetch or normalization failed contributes no Article
\* to the working list.
C3_FailedSourceContributesNothing ==
    \A i \in failed : \A k \in 1..Len(articles) : articles[k].source # source_name(i)

\* C6: an entry with no date-bearing field, or whose date candidates all
\* fail to parse, yields no Article and no error from parse_entry, and every
\* Article of the working list and of the returned collection has a
\* published timestamp.
C6_UndatedEntriesDropped ==
    /\ \A pp \in {Absent, Bad}, p \in {Absent, Bad}, pd \in {Absent, Bad},
          dc \in {Absent, Bad}, up \in {Absent, Bad}, u \in {Absent, Bad} :
          parse_entry(site, NormEntry(pp, p, pd, dc, up, u), "A", localOff) = RNone
    /\ \A i \in 1..Len(articles) : articles[i].published.some
    /\ pc = "done" => \A i \in 1..Len(result) : result[i].published.some

\* the last entry of the run had no resolvable date and was dropped, and the
\* collection returned holds the Articles of the dated ones
C6_Witness ==
    /\ pc = "done"
    /\ parsed = RNone
    /\ failed = {}
    /\ Len(result) = 2

(***************************************************************************)
(* Properties of the normalizer (SpecNormalize)                            *)
(***************************************************************************)
\* the date candidates in the order the specification gives them
CandidateOrder ==
    << "published_parsed", "published", "pubDate", "dc_date", "updated_parsed", "updated" >>

\* the value of the first candidate of e that parses, None if none does
FirstParsed(e) ==
    LET ok == { i \in 1..Len(CandidateOrder) : e[CandidateOrder[i]].st = "ok" }
    IN  IF ok = {} THEN NoneDt
        ELSE e[CandidateOrder[CHOOSE i \in ok : \A j \in ok : i <= j]].dt

\* C4: at both call sites parse_entry takes published from the first
\* candidate that parses, in the order published_parsed, published, pubDate,
\* dc:date, updated_parsed, updated.
C4_DateResolutionOrder ==
    pc = "parsed" =>
        LET d == FirstParsed(entry)
            n == normalize_tz(site, d, localOff)
        IN  /\ d.some => parsed.kind # "none"
            /\ parsed.kind = "article" => d.some /\ n.ok /\ parsed.art.published = n.dt

OnlyUpdatedParsed(e) ==
    /\ e.updated_parsed.st = "ok"
    /\ e.published_parsed = Absent /\ e.published = Absent /\ e.pubDate = Absent
    /\ e.dc_date = Absent /\ e.updated = Absent

\* C5: at both call sites an entry whose only date-bearing field is
\* updated_parsed yields an Article whose published is that value, normalized.
C5_UpdatedParsedOnly ==
    pc = "parsed" /\ OnlyUpdatedParsed(entry) =>
        /\ parsed.kind = "article"
        /\ parsed.art.published = normalize_tz(site, entry.updated_parsed.dt, localOff).dt

\* C10: the naive timestamp and the explicit-UTC timestamp with the same
\* calendar fields normalize alike (the same instant, or both out of range),
\* and the published value parse_entry stores is zone-aware in the zone of
\* its call site: the local zone in the batch digest, UTC in the interactive
\* view.
C10_TimezoneNormalization ==
    /\ pc = "normalized" =>
          /\ norm.naive.ok = norm.utc.ok
          /\ norm.naive.ok =>
                /\ Instant(norm.naive.dt) = Instant(norm.utc.dt)
                /\ norm.naive.dt.aware /\ norm.naive.dt.off = SiteZone(site, localOff)
                /\ norm.utc.dt.aware /\ norm.utc.dt.off = SiteZone(site, localOff)
    /\ pc = "parsed" /\ parsed.kind = "article" =>
          /\ parsed.art.published.some
          /\ parsed.art.published.aware
          /\ parsed.art.published.off = SiteZone(site, localOff)

\* a naive timestamp normalized in a process whose local zone is not UTC
C10_Witness ==
    /\ pc = "normalized"
    /\ site = "batch" /\ localOff # 0
    /\ norm.naive.ok
    /\ norm.naive.dt.wall # Instant(norm.naive.dt)

(***************************************************************************)
(* Properties of the filter engine (SpecFilter)                            *)
(***************************************************************************)
\* case folding and substring as the filter contract words them
Folded(t) == [i \in 1..Len(t) |-> CASE t[i] = "A" -> "a" [] t[i] = "B" -> "b" [] OTHER -> t[i]]
OccursIn(needle, hay) ==
    \E i \in 1..(Len(hay) - Len(needle) + 1) :
        \A k \in 1..Len(needle) : hay[i + k - 1] = needle[k]

RegionFor(s) ==
    IF \E i \in 1..NumSources : Sources[i].name = s
    THEN source_name_to_region[s] ELSE "Global"

\* the four criteria, for the arguments of the last apply_filters call
Satisfies(a) ==
    /\ Instant(fargs.start_date) <= Instant(a.published)
    /\ Instant(a.published) <= Instant(fargs.end_date)
    /\ fargs.allowed_sources = {} \/ a.source \in fargs.allowed_sources
    /\ fargs.allowed_regions = {} \/ RegionFor(a.source) \in fargs.allowed_regions
    /\ fargs.query # <<>> =>
          \/ OccursIn(Folded(fargs.query), Folded(a.title))
          \/ a.summary.some /\ OccursIn(Folded(fargs.query), Folded(a.summary.text))

\* the k-th smallest element of a set of indices
Kth(I, k) == CHOOSE i \in I : Cardinality({ j \in I : j <= i }) = k

\* out is the subsequence of in at the indices I, in order
IsSubsequenceAt(out, in, I) ==
    /\ Len(out) = Cardinality(I)
    /\ \A k \in 1..Len(out) : out[k] = in[Kth(I, k)]

\* C7: apply_filters returns exactly the Articles of its input that satisfy
\* the date window, the source set, the region set and the query, in the
\* order of the input.
C7_ApplyFiltersSubsequence ==
    pc = "filtered" /\ fargs.fn = "apply_filters" =>
        IsSubsequenceAt(fout, result, { i \in 1..Len(result) : Satisfies(result[i]) })

\* the first Article fails the query, the second passes every criterion: its
\* source is unknown to the registry (region "Global") and only its summary
\* matches, in another case than the query's
C7_Witness ==
    /\ pc = "filtered" /\ fargs.fn = "apply_filters"
    /\ fargs.query = <<"a">>
    /\ fargs.allowed_sources = {"Z"} /\ fargs.allowed_regions = {"Global"}
    /\ Len(result) = 2 /\ fout = <<result[2]>>
    /\ result[1].source = "Z"
    /\ result[2].summary = SomeText(<<"A">>)

\* the window of the last filter call, as instants
WindowStart ==
    IF fargs.fn = "apply_filters" THEN Instant(fargs.start_date)
    ELSE now - fargs.days * UnitsPerDay
WindowEnd == IF fargs.fn = "apply_filters" THEN Instant(fargs.end_date) ELSE now

InWindow(a) == WindowStart <= Instant(a.published) /\ Instant(a.published) <= WindowEnd

\* the criteria other than the date window: source, region and query in
\* apply_filters; in filter_last_days_top_n, fewer than top_n Articles of the
\* window are at least as recent
PassesOthers(i) ==
    IF fargs.fn = "apply_filters" THEN Satisfies(result[i])
    ELSE Cardinality({ j \in 1..Len(result) :
            /\ j # i
            /\ InWindow(result[j])
            /\ Instant(result[j].published) >= Instant(result[i].published) }) < fargs.top_n

\* C8: every Article a date-window filter returns lies in the window, and an
\* Article published exactly at the start or at the end of the window is
\* returned when it passes the other criteria.
C8_WindowInclusive ==
    pc = "filtered" =>
        /\ \A k \in 1..Len(fout) : InWindow(fout[k])
        /\ \A i \in 1..Len(result) :
              /\ Instant(result[i].published) \in {WindowStart, WindowEnd}
              /\ InWindow(result[i])
              /\ PassesOthers(i)
              => \E k \in 1..Len(fout) : fout[k] = result[i]

\* one Article exactly at the end and one exactly at the start of the
\* digest's trailing window, both returned
C8_Witness ==
    /\ pc = "filtered" /\ fargs.fn = "filter_last_days_top_n"
    /\ WindowStart < WindowEnd
    /\ Len(fout) = 2
    /\ Instant(fout[1].published) = WindowEnd
    /\ Instant(fout[2].published) = WindowStart

\* C9: filter_last_days_top_n returns min(top_n, k) Articles, k the number
\* of input Articles in [now - days, now]; they are in the window, in
\* descending order of published, each an Article of the input returned
\* once, and no Article of the window left out is more recent than one
\* returned.
C9_TopNMostRecent ==
    pc = "filtered" /\ fargs.fn = "filter_last_days_top_n" =>
        LET W == { i \in 1..Len(result) : InWindow(result[i]) }
            k == Cardinality(W)
            Out == { fout[j] : j \in 1..Len(fout) }
        IN  /\ Len(fout) = IF fargs.top_n <= k THEN fargs.top_n ELSE k
            /\ Cardinality(Out) = Len(fout)
            /\ Out \subseteq { result[i] : i \in W }
            /\ \A j \in 1..(Len(fout) - 1) :
                  Instant(fout[j].published) >= Instant(fout[j + 1].published)
            /\ \A i \in W : result[i] \notin Out =>
                  \A j \in 1..Len(fout) :
                      Instant(fout[j].published) >= Instant(result[i].published)

\* two Articles of different dates in the window and top_n = 1: the newer
\* one alone is returned
C9_Witness ==
    /\ pc = "filtered" /\ fargs.fn = "filter_last_days_top_n"
    /\ fargs.top_n = 1
    /\ Len(result) = 2
    /\ InWindow(result[1]) /\ InWindow(result[2])
    /\ Instant(result[1].published) > Instant(result[2].published)
    /\ fout = <<result[1]>>

(***************************************************************************)
(* The end-to-end scenario of the aggregator (Spec)                        *)
(***************************************************************************)
\* the run's working list is exactly: an Article of the earlier Source A
\* with an empty link and title X, then an Article of the later Source B
\* with the same title X and a non-empty link
UnlinkedThenLinked ==
    /\ pc = "done"
    /\ Len(articles) = 2
    /\ articles[1].source = "A" /\ articles[2].source = "B"
    /\ articles[1].link = <<>> /\ articles[2].link # <<>>
    /\ articles[1].title = articles[2].title

BothSurviveNewestFirst ==
    /\ Len(result) = 2
    /\ { result[1], result[2] } = { articles[1], articles[2] }
    /\ Instant(result[1].published) >= Instant(result[2].published)
    /\ Instant(articles[2].published) > Instant(articles[1].published)
          => result = << articles[2], articles[1] >>

\* C11 as stated: in the scenario both Articles survive deduplication, for
\* any title X and any non-empty link, newest first.
C11_UnlinkedAndLinkedBothSurvive ==
    UnlinkedThenLinked => BothSurviveNewestFirst

\* C11 as amended: in the scenario both Articles survive deduplication,
\* newest first, provided the link of the later one is not the text X itself
\* (the key of the unlinked Article is its title, the key of the linked one
\* its link, and the two keys are compared as plain text).
C11_BothSurviveUnlessLinkIsTitle ==
    UnlinkedThenLinked /\ articles[2].link # articles[1].title
        => BothSurviveNewestFirst

\* A's unlinked "y" is older than B's "y" with link "x": the list returned
\* is B's Article, then A's
C11_Witness ==
    /\ UnlinkedThenLinked
    /\ articles[2].link # articles[1].title
    /\ Instant(articles[2].published) > Instant(articles[1].published)
    /\ result = << articles[2], articles[1] >>

(***************************************************************************)
(* Structured time breakdowns (SpecNormalize)                              *)
(***************************************************************************)
\* parse_entry made an Article of an entry none of whose free-text date
\* fields parses: its date comes from published_parsed or updated_parsed
ResolvedFromStructured ==
    /\ pc = "parsed" /\ parsed.kind = "article"
    /\ entry.published.st # "ok" /\ entry.updated.st # "ok"
    /\ entry.pubDate.st # "ok" /\ entry.dc_date.st # "ok"

\* the calendar fields of the breakdown that was used, as a number
StructuredFields ==
    IF entry.published_parsed.st = "ok"
    THEN entry.published_parsed.dt.wall ELSE entry.updated_parsed.dt.wall

\* C14 as stated: the calendar fields of the structured breakdown are read
\* as local time: the stored instant is the fields minus the local offset.
C14_StructuredReadAsLocal ==
    ResolvedFromStructured =>
        Instant(parsed.art.published) = StructuredFields - localOff

\* C14 as amended: the calendar fields of the structured breakdown are read
\* as UTC: the stored instant is the fields themselves, whatever the local
\* offset; the batch digest then expresses it in the local zone, the
\* interactive view in UTC.
C14_StructuredReadAsUTC ==
    ResolvedFromStructured =>
        /\ Instant(parsed.art.published) = StructuredFields
        /\ parsed.art.published.off = SiteZone(site, localOff)

\* the batch digest, in a process east or west of UTC, dates an entry by its
\* updated_parsed
C14_Witness ==
    /\ ResolvedFromStructured
    /\ site = "batch" /\ localOff # 0
    /\ entry.published_parsed.st # "ok" /\ entry.updated_parsed.st = "ok"
    /\ parsed.art.published.wall = entry.updated_parsed.dt.wall + localOff

(***************************************************************************)
(* Properties of the batch digest run (SpecDigest)                         *)
(***************************************************************************)
\* the file at path p holds the digest of this run
Written(p) == \E f \in files : f.path = p /\ f.content = fout
AllWritten == \A p \in DigestFiles : Written(p)
EmailAttempted == mail \in { "no_credentials", "sent", "smtp_error" }

\* C12: in the batch digest run the email send step is attempted only after
\* dist/newsletter.html, dist/newsletter.csv and docs/index.html have all
\* been written; when main reaches the email step with a recipient configured
\* and a sender credential missing, send_email raises to the operator and the
\* three files written in that run remain written.
C12_EmailAfterFilesWritten ==
    /\ EmailAttempted => AllWritten
    /\ pc \in { "exit", "crashed" } /\ AllWritten /\ env.RECIPIENT_EMAIL
         /\ (~env.EMAIL_SENDER \/ ~env.EMAIL_PASSWORD)
       => mail = "no_credentials" /\ pc = "crashed"

C12_Witness ==
    /\ pc = "crashed" /\ mail = "no_credentials"
    /\ env.RECIPIENT_EMAIL /\ env.EMAIL_SENDER /\ ~env.EMAIL_PASSWORD
    /\ fout # <<>>
    /\ AllWritten

(***************************************************************************)
(* Properties of the interactive view's runs (SpecView)                    *)
(***************************************************************************)
\* a run of main has just rendered
JustRan == pc = "rendered" /\ view.ran

\* max(1, ceil(total / 10)): the least number of pages of 10 that hold total
PagesFor(total) ==
    CHOOSE n \in 1..(total + 1) :
        /\ n * PerPage >= total
        /\ n = 1 \/ (n - 1) * PerPage < total

\* page p of the URL brought into 1..tp
Clamped(p, tp) == IF p < 1 THEN 1 ELSE IF p > tp THEN tp ELSE p

\* C13: for every run of main, in any session state, that starts with
\* page = p in the URL, 1 <= p <= total_pages of the current filtered result,
\* and with filter inputs equal to those the URL was produced under, the page
\* rendered by that run is p.
C13_UrlPageDrivesPage ==
    /\ JustRan
    /\ view.url_in.kind = "int"
    /\ 1 <= view.url_in.val /\ view.url_in.val <= PagesFor(view.total)
    /\ view.url_from = SomeKey(session.key)
    => session.page = view.url_in.val

IsAscending(t) ==
    \A i \in 1..(Len(t) - 1) :
        \E a, b \in 1..Len(SortOrder) : a < b /\ SortOrder[a] = t[i] /\ SortOrder[b] = t[i + 1]
IsSortedFrom(t, names) == Len(t) = Len(names) /\ Range(t) = Range(names) /\ IsAscending(t)
Trimmed(t) ==
    LET Ends == { p \in (1..(Len(t) + 1)) \X (0..Len(t)) :
                    /\ p[1] <= p[2] + 1
                    /\ \A i \in 1..(p[1] - 1) : t[i] = " "
                    /\ \A i \in (p[2] + 1)..Len(t) : t[i] = " "
                    /\ p[1] <= p[2] => t[p[1]] # " " /\ t[p[2]] # " " }
        p == CHOOSE e \in Ends : TRUE
    IN  SubSeq(t, p[1], p[2])
KeyAsStated(k, f) ==
    /\ Len(k) = 5
    /\ IF Len(f.date_range) = 2
       THEN k[1] = f.date_range[1] /\ k[2] = f.date_range[2]
       ELSE k[1] = Today - DefaultDays /\ k[2] = Today
    /\ IsSortedFrom(k[3], f.selected_sources)
    /\ IsSortedFrom(k[4], f.selected_regions)
    /\ k[5] = Folded(Trimmed(f.query))

\* C16: across successive runs in one session, the run stores the filter key
\* of its filters; when that key differs from the key the previous run
\* stored, the page is 1 whatever the URL page parameter; when it is the
\* same, the page is the URL page if the URL has a numeral, else the previous
\* page, brought into 1..total_pages.
C16_FilterKeyChangeResetsPage ==
    JustRan /\ view.before.has_key =>
        LET asked == IF view.url_in.kind = "int" THEN view.url_in.val ELSE view.before.page
        IN  /\ session.has_key /\ KeyAsStated(session.key, session.filters)
            /\ session.key # view.before.key => session.page = 1
            /\ session.key = view.before.key
                 => session.page = Clamped(asked, PagesFor(view.total))

\* the session was on page 2 with the URL saying so, the query changed, and
\* the run went back to page 1 of a list that has a page 2
C16_Witness ==
    /\ JustRan
    /\ view.before.has_key /\ view.before.key # session.key
    /\ session.filters.query # <<>>
    /\ view.before.page = 2 /\ view.url_in = IntParam(2)
    /\ view.total = MaxTotal
    /\ session.page = 1

====
